---- MODULE Spec2Model ----
(***************************************************************************)
(* Waiting-list backend: an Express server (two revisions of the server    *)
(* file, src/unnamed/part_000 and src/unnamed/part_001) on top of a        *)
(* PostgreSQL store reached through database.js (two revisions as well,    *)
(* src/database.js lines 1-126 and 128-235).                               *)
(*                                                                         *)
(* A step of the model is what runs between two awaits of the code: a      *)
(* handler runs synchronously up to the query it awaits, the store         *)
(* executes the query atomically, and the handler resumes with the result  *)
(* or with the thrown error.  Strings that the code inspects (the request  *)
(* fields) are tuples of one-character strings; a SQL timestamp is an      *)
(* integer.  The columns ip_address, user_agent and referral_code are not  *)
(* read by any handler and are left out of the rows.                       *)
(***************************************************************************)
EXTENDS Integers, Sequences, FiniteSets, TLC

VARIABLES
    NODE_ENV,            \* process.env.NODE_ENV
    serverJs,            \* which revision of the server file runs
    databaseJs,          \* which revision of database.js it requires
    up,                  \* the store answers queries
    schema,              \* names of the tables and indexes that exist
    waitlist_users,      \* rows of waitlist_users, in insertion order
    waitlist_analytics,  \* rows of waitlist_analytics, in insertion order
    users_id_seq,        \* last value of the SERIAL sequence of waitlist_users.id
    analytics_id_seq,    \* last value of the SERIAL sequence of waitlist_analytics.id
    clock,               \* CURRENT_TIMESTAMP / NOW()
    proc,                \* the startup path of the process: startServer
    reqs,                \* the HTTP requests, one record per request slot
    outages,             \* number of times the store went down
    boots                \* number of times the process was started

store == <<up, schema, waitlist_users, waitlist_analytics, users_id_seq,
           analytics_id_seq, clock>>
config == <<NODE_ENV, serverJs, databaseJs>>
vars == <<NODE_ENV, serverJs, databaseJs, up, schema, waitlist_users,
          waitlist_analytics, users_id_seq, analytics_id_seq, clock, proc,
          reqs, outages, boots>>

----------------------------------------------------------------------------
(* Bounds of the model *)

MaxReqs == 2
MaxOutages == 1
MaxBoots == 2

(* Constants of the program *)

ProbeRetries == 5
ListLimit == 100

Slots == 1..MaxReqs

----------------------------------------------------------------------------
(* JavaScript values of the request body *)

Undefined == [t |-> "undefined", s |-> <<>>]
Str(s) == [t |-> "string", s |-> s]

\* !v
Falsy(v) == v.t = "undefined" \/ v.s = <<>>

\* v || d
OrDefault(v, d) == IF Falsy(v) THEN d ELSE v

Whitespace == {" ", "\t", "\n"}

\* /^[^\s@]+@[^\s@]+\.[^\s@]+$/ : one "@", not first; no whitespace; after the
\* "@" a "." that neither follows the "@" directly nor ends the string.
emailRegex(s) ==
    \E a \in 1..Len(s), d \in 1..Len(s) :
        /\ s[a] = "@"
        /\ s[d] = "."
        /\ 1 < a
        /\ a + 1 < d
        /\ d < Len(s)
        /\ \A i \in (1..Len(s)) \ {a} : s[i] \notin Whitespace \cup {"@"}

\* emailRegex.test(email): the argument is converted to a string first
emailRegexTest(v) ==
    IF v.t = "undefined"
    THEN emailRegex(<<"u", "n", "d", "e", "f", "i", "n", "e", "d">>)
    ELSE emailRegex(v.s)

----------------------------------------------------------------------------
(* Request bodies the clients send *)

Ana == <<"A", "n", "a">>
Phone == <<"5", "5", "5">>
ana == <<"a", "@", "e", ".", "c">>
bob == <<"b", "@", "e", ".", "c">>
notAnEmail == <<"n", "o", "t", "-", "a", "n", "-", "e", "m", "a", "i", "l">>
noDot == <<"a", "@", "e">>
withSpace == <<"a", " ", "b", "@", "e", ".", "c">>

ValidEmails == {ana, bob}
MalformedEmails == {notAnEmail, noDot, withSpace}

Body(n, e, p) ==
    [name |-> n, email |-> e, phone |-> p, gender |-> Undefined, age |-> Undefined]

ValidBodies == {Body(Str(Ana), Str(e), Str(Phone)) : e \in ValidEmails}
MalformedBodies == {Body(Str(Ana), Str(e), Str(Phone)) : e \in MalformedEmails}
MissingBodies ==
    {Body(Undefined, Str(ana), Str(Phone)),
     Body(Str(<<>>), Str(ana), Str(Phone)),
     Body(Str(Ana), Undefined, Str(Phone)),
     Body(Str(Ana), Str(<<>>), Str(Phone)),
     Body(Str(Ana), Str(ana), Undefined),
     Body(Str(Ana), Str(ana), Str(<<>>))}
Bodies == ValidBodies \cup MalformedBodies \cup MissingBodies
NoBody == Body(Undefined, Undefined, Undefined)

----------------------------------------------------------------------------
(* Responses *)

NoRes ==
    [status |-> 0, success |-> "", error |-> "", userId |-> 0, count |-> -1,
     data |-> <<>>, health |-> "", database |-> ""]

Json(st, ok, e) == [NoRes EXCEPT !.status = st, !.success = ok, !.error = e]

NoReq == [kind |-> "none", body |-> NoBody, pc |-> "idle", nq |-> 0, id |-> 0,
          caught |-> "", res |-> NoRes]

----------------------------------------------------------------------------
(* The store *)

\* The error a query over the tables `tables` throws, "" when it runs.
QueryError(tables) ==
    IF ~up THEN "ECONNREFUSED"
    ELSE IF ~(tables \subseteq schema) THEN "42P01"
    ELSE ""

\* Number.prototype.toString / the text form in which pg returns a bigint
Digit == <<"0", "1", "2", "3", "4", "5", "6", "7", "8", "9">>

RECURSIVE bigintText(_)
bigintText(n) ==
    IF n < 10 THEN <<Digit[n + 1]>>
    ELSE Append(bigintText(n \div 10), Digit[(n % 10) + 1])

IsDigit(c) == \E d \in 0..9 : Digit[d + 1] = c
DigitValue(c) == CHOOSE d \in 0..9 : Digit[d + 1] = c

RECURSIVE DigitsValue(_)
DigitsValue(s) ==
    IF s = <<>> THEN 0
    ELSE 10 * DigitsValue(SubSeq(s, 1, Len(s) - 1)) + DigitValue(s[Len(s)])

\* parseInt(s): the value of the longest prefix of decimal digits; -1 stands
\* for NaN (no digit at the start)
parseInt(s) ==
    LET k == CHOOSE n \in 0..Len(s) :
                 /\ \A i \in 1..n : IsDigit(s[i])
                 /\ n = Len(s) \/ ~IsDigit(s[n + 1])
    IN  IF k = 0 THEN -1 ELSE DigitsValue(SubSeq(s, 1, k))

\* SELECT COUNT(*) FROM t : a bigint, which pg hands over as text
CountText(rows) == bigintText(Len(rows))

\* SELECT id FROM waitlist_users WHERE email = $1
SelectByEmail(e) ==
    {i \in 1..Len(waitlist_users) : waitlist_users[i].email = e}

----------------------------------------------------------------------------
(* POST /api/signup *)

PreferNotToSay == <<"p", "r", "e", "f", "e", "r", "-", "n", "o", "t", "-", "t",
                    "o", "-", "s", "a", "y">>
NotSpecified == <<"n", "o", "t", "-", "s", "p", "e", "c", "i", "f", "i", "e", "d">>

\* The synchronous checks before the first query: the response they send, or
\* NoRes when the handler goes on to the store.
validate_001NoPhone(b) ==
    IF Falsy(b.name) \/ Falsy(b.email)
    THEN Json(400, "false", "Name, email, and phone are required")
    ELSE IF ~emailRegexTest(b.email)
    THEN Json(400, "false", "Invalid email format")
    ELSE NoRes

validate_001(b) ==
    IF Falsy(b.name) \/ Falsy(b.email) \/ Falsy(b.phone)
    THEN Json(400, "false", "Name, email, and phone are required")
    ELSE IF ~emailRegexTest(b.email)
    THEN Json(400, "false", "Invalid email format")
    ELSE NoRes

validate_000(b) ==
    IF Falsy(b.name) \/ Falsy(b.email) \/ Falsy(b.phone)
    THEN Json(400, "false", "Missing fields")
    ELSE NoRes

validate(b) == IF serverJs = "part_001" THEN validate_001(b) ELSE validate_000(b)

\* The response when the pre-check finds a row
conflict_001 == Json(409, "false", "This email is already registered")
conflict_000 == Json(409, "false", "Email already registered")
conflict == IF serverJs = "part_001" THEN conflict_001 ELSE conflict_000

\* The catch block of the handler, given error.code
catch_001(code) ==
    IF code = "23505"
    THEN Json(409, "false", "Email already registered")
    ELSE Json(500, "false", "Server error. Please try again later.")

catch_000(code) == Json(500, "false", "Server error")

catchSilent(code) == NoRes

catch(code) == IF serverJs = "part_001" THEN catch_001(code) ELSE catch_000(code)

\* A request can be received: the server listens and r is the next free slot.
Accepting(r) ==
    /\ proc.pc = "listening"
    /\ reqs[r].kind = "none"
    /\ \A q \in Slots : q < r => reqs[q].kind # "none"

Respond(r, res, code) ==
    reqs' = [reqs EXCEPT ![r].pc = "done", ![r].res = res, ![r].caught = code]

Await(r, pc) ==
    reqs' = [reqs EXCEPT ![r].pc = pc, ![r].nq = @ + 1]

\* The handler up to its first await.
SignupReceive(r, b) ==
    /\ Accepting(r)
    /\ IF validate(b).status # 0
       THEN reqs' = [reqs EXCEPT ![r] = [NoReq EXCEPT !.kind = "signup", !.body = b,
                                                     !.pc = "done", !.res = validate(b)]]
       ELSE reqs' = [reqs EXCEPT ![r] = [NoReq EXCEPT !.kind = "signup", !.body = b,
                                                     !.pc = "existingUser", !.nq = 1]]
    /\ UNCHANGED <<store, config, proc, outages, boots>>

\* SELECT id FROM waitlist_users WHERE email = $1, and the code up to the INSERT
SignupExisting(r) ==
    /\ reqs[r].kind = "signup" /\ reqs[r].pc = "existingUser"
    /\ LET code == QueryError({"waitlist_users"}) IN
       IF code # ""
       THEN Respond(r, catch(code), code)
       ELSE IF SelectByEmail(reqs[r].body.email.s) # {}
       THEN Respond(r, conflict, "")
       ELSE Await(r, "insert")
    /\ UNCHANGED <<store, config, proc, outages, boots>>

\* The error of INSERT INTO waitlist_users with email e
InsertErrorNoUnique(e) == QueryError({"waitlist_users"})

InsertError(e) ==
    IF QueryError({"waitlist_users"}) # "" THEN QueryError({"waitlist_users"})
    ELSE IF SelectByEmail(e) # {} THEN "23505"
    ELSE ""

NewRowNameAsEmail(id, b, now) ==
    [id |-> id, name |-> b.email.s, email |-> b.name.s, phone |-> b.phone.s,
     gender |-> OrDefault(b.gender, Str(PreferNotToSay)).s,
     age |-> OrDefault(b.age, Str(NotSpecified)).s,
     created_at |-> now]

\* VALUES ($1, $2, $3, $4, $5) for (name, email, phone, gender, age)
NewRow(id, b, now) ==
    [id |-> id, name |-> b.name.s, email |-> b.email.s, phone |-> b.phone.s,
     gender |-> OrDefault(b.gender, Str(PreferNotToSay)).s,
     age |-> OrDefault(b.age, Str(NotSpecified)).s,
     created_at |-> now]

RejectedInsertKept(rows, row) == Append(rows, row)

\* The table after an INSERT of row that the constraint rejected: the
\* statement is undone as a whole.
RejectedInsert(rows, row) == rows

IncrementRecount(row) ==
    [row EXCEPT !.total_signups = Len(waitlist_users), !.last_updated = clock]

\* SET total_signups = total_signups + 1, last_updated = NOW()
Increment(row) ==
    [row EXCEPT !.total_signups = @ + 1, !.last_updated = clock]

\* INSERT INTO waitlist_users ... RETURNING id, and the code up to the UPDATE.
\* The SERIAL default is evaluated before the uniqueness check, so a rejected
\* insert consumes an id as well.
SignupInsert(r) ==
    /\ reqs[r].kind = "signup" /\ reqs[r].pc = "insert"
    /\ LET code == InsertError(reqs[r].body.email.s) IN
       IF code \in {"ECONNREFUSED", "42P01"}
       THEN /\ Respond(r, catch(code), code)
            /\ UNCHANGED store
       ELSE IF code = "23505"
       THEN /\ Respond(r, catch(code), code)
            /\ users_id_seq' = users_id_seq + 1
            /\ waitlist_users' =
                   RejectedInsert(waitlist_users,
                                  NewRow(users_id_seq', reqs[r].body, clock))
            /\ UNCHANGED <<up, schema, waitlist_analytics, analytics_id_seq, clock>>
       ELSE \E dt \in {0, 1} :
            /\ clock' = clock + dt
            /\ users_id_seq' = users_id_seq + 1
            /\ waitlist_users' =
                   Append(waitlist_users, NewRow(users_id_seq', reqs[r].body, clock'))
            /\ reqs' = [reqs EXCEPT ![r].pc = "update", ![r].nq = @ + 1,
                                    ![r].id = users_id_seq']
            /\ UNCHANGED <<up, schema, waitlist_analytics, analytics_id_seq>>
    /\ UNCHANGED <<config, proc, outages, boots>>

\* UPDATE waitlist_analytics SET total_signups = total_signups + 1,
\* last_updated = NOW()  (every row), then the success response
SignupUpdate(r) ==
    /\ reqs[r].kind = "signup" /\ reqs[r].pc = "update"
    /\ LET code == QueryError({"waitlist_analytics"}) IN
       IF code # ""
       THEN /\ Respond(r, catch(code), code)
            /\ UNCHANGED store
       ELSE /\ waitlist_analytics' =
                   [i \in 1..Len(waitlist_analytics) |->
                       Increment(waitlist_analytics[i])]
            /\ Respond(r, [Json(200, "true", "") EXCEPT !.userId = reqs[r].id], "")
            /\ UNCHANGED <<up, schema, waitlist_users, users_id_seq,
                           analytics_id_seq, clock>>
    /\ UNCHANGED <<config, proc, outages, boots>>

----------------------------------------------------------------------------
(* GET /health *)

HealthReceive(r) ==
    /\ Accepting(r)
    /\ reqs' = [reqs EXCEPT ![r] = [NoReq EXCEPT !.kind = "health", !.pc = "query",
                                                  !.nq = 1]]
    /\ UNCHANGED <<store, config, proc, outages, boots>>

HealthProbeCount == QueryError({"waitlist_users"})

\* The error of SELECT 1 as test: the statement names no table
HealthProbe == QueryError({})

HealthQuery(r) ==
    /\ reqs[r].kind = "health" /\ reqs[r].pc = "query"
    /\ LET code == HealthProbe IN
       IF code # ""
       THEN Respond(r, [NoRes EXCEPT !.status = 500, !.health = "unhealthy",
                                     !.error = code], code)
       ELSE Respond(r, [NoRes EXCEPT !.status = 200, !.health = "healthy",
                                     !.database = "connected"], "")
    /\ UNCHANGED <<store, config, proc, outages, boots>>

----------------------------------------------------------------------------
(* GET /api/count *)

CountReceive(r) ==
    /\ Accepting(r)
    /\ reqs' = [reqs EXCEPT ![r] = [NoReq EXCEPT !.kind = "count", !.pc = "query",
                                                  !.nq = 1]]
    /\ UNCHANGED <<store, config, proc, outages, boots>>

\* part_001: SELECT COUNT(*) as count, then parseInt of the text
count_001WrongTable == parseInt(CountText(waitlist_analytics))

count_001 == parseInt(CountText(waitlist_users))

\* part_000: SELECT COUNT(*)::int AS count
count_000 == Len(waitlist_users)

CountResult == IF serverJs = "part_001" THEN count_001 ELSE count_000

CountQuery(r) ==
    /\ reqs[r].kind = "count" /\ reqs[r].pc = "query"
    /\ LET code == QueryError({"waitlist_users"}) IN
       IF code # ""
       THEN Respond(r, Json(500, "false", "Failed to get count"), code)
       ELSE Respond(r, [Json(200, "true", "") EXCEPT
                           !.count = CountResult], "")
    /\ UNCHANGED <<store, config, proc, outages, boots>>

----------------------------------------------------------------------------
(* GET /api/signups *)

\* row x comes before row y under ORDER BY created_at DESC; rows of equal
\* created_at come in an order the store chooses (tie)
Before(x, y, tie) ==
    \/ x.created_at > y.created_at
    \/ x.created_at = y.created_at /\ (IF tie = "asc" THEN x.id < y.id ELSE x.id > y.id)

\* ORDER BY created_at DESC: each row goes to the place after the rows that
\* come before it
OrderByCreatedAtDesc(rows, tie) ==
    LET n == Len(rows)
        place == <<>> \o [i \in 1..n |->
                     Cardinality({j \in 1..n : Before(rows[j], rows[i], tie)}) + 1]
    IN  [k \in 1..n |-> rows[CHOOSE i \in 1..n : place[i] = k]]

Limit(rows, n) == SubSeq(rows, 1, IF Len(rows) < n THEN Len(rows) ELSE n)

\* part_001: ... ORDER BY created_at DESC LIMIT 100
signups_001(tie) == Limit(OrderByCreatedAtDesc(waitlist_users, tie), ListLimit)

\* part_000: ... ORDER BY created_at DESC
signups_000(tie) == OrderByCreatedAtDesc(waitlist_users, tie)

\* process.env.NODE_ENV === 'production'
ForbiddenTypo == NODE_ENV = "prod"

Forbidden == NODE_ENV = "production"

SignupsReceive(r) ==
    /\ Accepting(r)
    /\ IF Forbidden
       THEN reqs' = [reqs EXCEPT ![r] = [NoReq EXCEPT !.kind = "signups", !.pc = "done",
                                                     !.res = Json(403, "", "Forbidden")]]
       ELSE reqs' = [reqs EXCEPT ![r] = [NoReq EXCEPT !.kind = "signups", !.pc = "query",
                                                     !.nq = 1]]
    /\ UNCHANGED <<store, config, proc, outages, boots>>

SignupsQuery(r) ==
    /\ reqs[r].kind = "signups" /\ reqs[r].pc = "query"
    /\ LET code == QueryError({"waitlist_users"}) IN
       IF code # ""
       THEN Respond(r, Json(500, "false",
                            IF serverJs = "part_001" THEN "Failed to fetch signups"
                            ELSE ""), code)
       ELSE \E tie \in {"asc", "desc"} :
            LET rows == IF serverJs = "part_001" THEN signups_001(tie)
                        ELSE signups_000(tie)
            IN  Respond(r, [Json(200, "true", "") EXCEPT
                               !.data = rows,
                               !.count = IF serverJs = "part_001" THEN Len(rows)
                                         ELSE -1], "")
    /\ UNCHANGED <<store, config, proc, outages, boots>>

----------------------------------------------------------------------------
(* database.js: testConnection and initializeDatabase *)

\* lines 32-54: connect, then count the rows of both tables
testConnection_v1 == QueryError({"waitlist_users", "waitlist_analytics"}) = ""

\* lines 159-171: connect, then SELECT 1
testConnection_v2 == QueryError({}) = ""

testConnection == IF databaseJs = "v1" THEN testConnection_v1 ELSE testConnection_v2

\* The first query initializeDatabase awaits
InitFirstPc == IF databaseJs = "v1" THEN "verifyUsers" ELSE "createUsers"

\* startServer after `await initializeDatabase()`: the returned value is not
\* looked at, app.listen comes next.
Returned(ok) == proc' = [proc EXCEPT !.pc = "listening", !.init = ok]

\* The catch block around the creation: v1 returns false, v2 exits.
initFailed_v1(code) == proc' = [proc EXCEPT !.pc = "listening", !.init = "false",
                                            !.caught = code]
initFailed_v2(code) == proc' = [proc EXCEPT !.pc = "exited", !.caught = code]
InitFailed(code) ==
    IF databaseJs = "v1" THEN initFailed_v1(code) ELSE initFailed_v2(code)

\* The error of CREATE TABLE / CREATE INDEX IF NOT EXISTS of the object `name`
\* over the tables `tables`: an object that exists already is no error.
CreateErrorStrict(name, tables) ==
    IF QueryError(tables) # "" THEN QueryError(tables)
    ELSE IF name \in schema THEN "42P07"
    ELSE ""

CreateError(name, tables) == QueryError(tables)

\* v1 only: SELECT 1 FROM waitlist_users LIMIT 1
VerifyUsers ==
    /\ proc.pc = "verifyUsers"
    /\ proc' = [proc EXCEPT !.pc = IF QueryError({"waitlist_users"}) # ""
                                   THEN "createUsers" ELSE "verifyAnalytics"]
    /\ UNCHANGED <<store, config, reqs, outages, boots>>

\* v1 only: SELECT 1 FROM waitlist_analytics LIMIT 1
VerifyAnalytics ==
    /\ proc.pc = "verifyAnalytics"
    /\ IF QueryError({"waitlist_analytics"}) # ""
       THEN proc' = [proc EXCEPT !.pc = "createUsers"]
       ELSE Returned("true")
    /\ UNCHANGED <<store, config, reqs, outages, boots>>

CreateUsers ==
    /\ proc.pc = "createUsers"
    /\ LET code == CreateError("waitlist_users", {}) IN
       IF code # ""
       THEN InitFailed(code) /\ UNCHANGED schema
       ELSE /\ schema' = schema \cup {"waitlist_users"}
            /\ proc' = [proc EXCEPT !.pc = "createIdxEmail"]
    /\ UNCHANGED <<up, waitlist_users, waitlist_analytics, users_id_seq,
                   analytics_id_seq, clock, config, reqs, outages, boots>>

CreateIdxEmail ==
    /\ proc.pc = "createIdxEmail"
    /\ LET code == CreateError("idx_waitlist_email", {"waitlist_users"}) IN
       IF code # ""
       THEN InitFailed(code) /\ UNCHANGED schema
       ELSE /\ schema' = schema \cup {"idx_waitlist_email"}
            /\ proc' = [proc EXCEPT !.pc = "createIdxCreatedAt"]
    /\ UNCHANGED <<up, waitlist_users, waitlist_analytics, users_id_seq,
                   analytics_id_seq, clock, config, reqs, outages, boots>>

CreateIdxCreatedAt ==
    /\ proc.pc = "createIdxCreatedAt"
    /\ LET code == CreateError("idx_waitlist_created_at", {"waitlist_users"}) IN
       IF code # ""
       THEN InitFailed(code) /\ UNCHANGED schema
       ELSE /\ schema' = schema \cup {"idx_waitlist_created_at"}
            /\ proc' = [proc EXCEPT !.pc = "createAnalytics"]
    /\ UNCHANGED <<up, waitlist_users, waitlist_analytics, users_id_seq,
                   analytics_id_seq, clock, config, reqs, outages, boots>>

CreateAnalytics ==
    /\ proc.pc = "createAnalytics"
    /\ LET code == CreateError("waitlist_analytics", {}) IN
       IF code # ""
       THEN InitFailed(code) /\ UNCHANGED schema
       ELSE /\ schema' = schema \cup {"waitlist_analytics"}
            /\ proc' = [proc EXCEPT !.pc = "countAnalytics"]
    /\ UNCHANGED <<up, waitlist_users, waitlist_analytics, users_id_seq,
                   analytics_id_seq, clock, config, reqs, outages, boots>>

\* SELECT COUNT(*) FROM waitlist_analytics; parseInt(result.rows[0].count) === 0
AnalyticsIsEmpty == parseInt(CountText(waitlist_analytics)) = 0

CountAnalytics ==
    /\ proc.pc = "countAnalytics"
    /\ IF QueryError({"waitlist_analytics"}) # ""
       THEN InitFailed(QueryError({"waitlist_analytics"}))
       ELSE IF AnalyticsIsEmpty
       THEN proc' = [proc EXCEPT !.pc = "insertAnalytics"]
       ELSE Returned("true")
    /\ UNCHANGED <<store, config, reqs, outages, boots>>

\* INSERT INTO waitlist_analytics (total_signups) VALUES (0)
InsertAnalytics ==
    /\ proc.pc = "insertAnalytics"
    /\ IF QueryError({"waitlist_analytics"}) # ""
       THEN /\ InitFailed(QueryError({"waitlist_analytics"}))
            /\ UNCHANGED <<waitlist_analytics, analytics_id_seq>>
       ELSE /\ analytics_id_seq' = analytics_id_seq + 1
            /\ waitlist_analytics' =
                   Append(waitlist_analytics,
                          [id |-> analytics_id_seq', total_signups |-> 0,
                           last_updated |-> clock])
            /\ Returned("true")
    /\ UNCHANGED <<up, schema, waitlist_users, users_id_seq, clock, config, reqs,
                   outages, boots>>

----------------------------------------------------------------------------
(* startServer *)

\* The process at the first await of startServer
Started ==
    IF serverJs = "part_001"
    THEN [pc |-> "testConnection", retries |-> ProbeRetries, init |-> "",
          caught |-> "", prev |-> "", attempts |-> 0, connected |-> FALSE]
    ELSE [pc |-> "setSearchPath", retries |-> 0, init |-> "", caught |-> "",
          prev |-> "", attempts |-> 0, connected |-> FALSE]

\* part_001: one turn of the while loop: testConnection, then on failure
\* retries-- and the 5 s sleep; after the loop, exit when retries === 0
\* proc.attempts counts the calls of testConnection and proc.connected holds
\* the last value it returned.
LoopAgainInclusive(retries) == retries >= 0

\* while (retries > 0)
LoopAgain(retries) == retries > 0

Probe ==
    /\ proc.pc = "testConnection"
    /\ IF testConnection
       THEN proc' = [proc EXCEPT !.pc = InitFirstPc, !.attempts = @ + 1,
                                 !.connected = TRUE]
       ELSE IF LoopAgain(proc.retries - 1)
       THEN proc' = [proc EXCEPT !.retries = @ - 1, !.attempts = @ + 1]
       ELSE proc' = [proc EXCEPT !.retries = @ - 1, !.attempts = @ + 1,
                                 !.pc = IF proc.retries - 1 = 0 THEN "exited"
                                        ELSE InitFirstPc]
    /\ UNCHANGED <<store, config, reqs, outages, boots>>

\* part_000: await query('SET search_path TO public'); a throw ends in the
\* catch of startServer().catch, which exits
SetSearchPath ==
    /\ proc.pc = "setSearchPath"
    /\ IF QueryError({}) # ""
       THEN proc' = [proc EXCEPT !.pc = "exited"]
       ELSE proc' = [proc EXCEPT !.pc = InitFirstPc]
    /\ UNCHANGED <<store, config, reqs, outages, boots>>

----------------------------------------------------------------------------
(* The environment: the store goes down and comes back, and the process is  *)
(* started again (a crash, a redeploy), which drops the requests in flight. *)

StoreDown ==
    /\ up /\ outages < MaxOutages
    /\ up' = FALSE
    /\ outages' = outages + 1
    /\ UNCHANGED <<schema, waitlist_users, waitlist_analytics, users_id_seq,
                   analytics_id_seq, clock, config, proc, reqs, boots>>

StoreUp ==
    /\ ~up
    /\ up' = TRUE
    /\ UNCHANGED <<schema, waitlist_users, waitlist_analytics, users_id_seq,
                   analytics_id_seq, clock, config, proc, reqs, outages, boots>>

InFlight(q) == q.pc \notin {"idle", "done", "aborted"}

Restart ==
    /\ boots < MaxBoots
    /\ boots' = boots + 1
    /\ proc' = [Started EXCEPT !.prev = proc.init]
    /\ reqs' = [r \in Slots |-> IF InFlight(reqs[r])
                                THEN [reqs[r] EXCEPT !.pc = "aborted"] ELSE reqs[r]]
    /\ UNCHANGED <<store, config, outages>>

----------------------------------------------------------------------------
(* The system: a process started against an empty database *)

Init ==
    /\ NODE_ENV \in {"production", "development"}
    /\ serverJs \in {"part_000", "part_001"}
    /\ databaseJs \in {"v1", "v2"}
    /\ up = TRUE
    /\ schema = {}
    /\ waitlist_users = <<>>
    /\ waitlist_analytics = <<>>
    /\ users_id_seq = 0
    /\ analytics_id_seq = 0
    /\ clock = 0
    /\ proc = Started
    /\ reqs = [r \in Slots |-> NoReq]
    /\ outages = 0
    /\ boots = 1

Next ==
    \/ Probe
    \/ SetSearchPath
    \/ VerifyUsers
    \/ VerifyAnalytics
    \/ CreateUsers
    \/ CreateIdxEmail
    \/ CreateIdxCreatedAt
    \/ CreateAnalytics
    \/ CountAnalytics
    \/ InsertAnalytics
    \/ \E r \in Slots, b \in Bodies : SignupReceive(r, b)
    \/ \E r \in Slots : SignupExisting(r)
    \/ \E r \in Slots : SignupInsert(r)
    \/ \E r \in Slots : SignupUpdate(r)
    \/ \E r \in Slots : HealthReceive(r)
    \/ \E r \in Slots : HealthQuery(r)
    \/ \E r \in Slots : CountReceive(r)
    \/ \E r \in Slots : CountQuery(r)
    \/ \E r \in Slots : SignupsReceive(r)
    \/ \E r \in Slots : SignupsQuery(r)
    \/ StoreDown
    \/ StoreUp
    \/ Restart

Spec == Init /\ [][Next]_vars

----------------------------------------------------------------------------
(* The same server, listening on a store that holds ListLimit signups      *)
(* already: the rows 1..ListLimit, one per tick of the clock.              *)

\* The process after a startup on a reachable store that went through: in
\* part_001 the first attempt of the probe succeeded.
Listening ==
    [Started EXCEPT !.pc = "listening", !.init = "true",
                    !.connected = (serverJs = "part_001"),
                    !.attempts = IF serverJs = "part_001" THEN 1 ELSE 0]

PrefillEmail(i) == bigintText(i) \o <<"@", "e", ".", "c">>

PrefillRow(i) == NewRow(i, Body(Str(Ana), Str(PrefillEmail(i)), Str(Phone)), i)

InitFull ==
    /\ NODE_ENV \in {"production", "development"}
    /\ serverJs \in {"part_000", "part_001"}
    /\ databaseJs = "v2"
    /\ up = TRUE
    /\ schema = {"waitlist_users", "idx_waitlist_email", "idx_waitlist_created_at",
                 "waitlist_analytics"}
    /\ waitlist_users = [i \in 1..ListLimit |-> PrefillRow(i)]
    /\ waitlist_analytics =
           <<[id |-> 1, total_signups |-> ListLimit, last_updated |-> ListLimit]>>
    /\ users_id_seq = ListLimit
    /\ analytics_id_seq = 1
    /\ clock = ListLimit
    /\ proc = Listening
    /\ reqs = [r \in Slots |-> NoReq]
    /\ outages = 0
    /\ boots = 1

NextServing ==
    \/ \E r \in Slots, b \in Bodies : SignupReceive(r, b)
    \/ \E r \in Slots : SignupExisting(r)
    \/ \E r \in Slots : SignupInsert(r)
    \/ \E r \in Slots : SignupUpdate(r)
    \/ \E r \in Slots : HealthReceive(r)
    \/ \E r \in Slots : HealthQuery(r)
    \/ \E r \in Slots : CountReceive(r)
    \/ \E r \in Slots : CountQuery(r)
    \/ \E r \in Slots : SignupsReceive(r)
    \/ \E r \in Slots : SignupsQuery(r)
    \/ StoreDown
    \/ StoreUp

SpecFull == InitFull /\ [][NextServing]_vars

----------------------------------------------------------------------------
(* The startup alone, with the environment.  Every await of startServer    *)
(* settles: a query is answered or fails (the pool gives up a connection   *)
(* attempt after connectionTimeoutMillis) and the 5 s timer fires, so a    *)
(* step of the startup that can be taken is taken.                         *)

StartupStep ==
    \/ Probe
    \/ SetSearchPath
    \/ VerifyUsers
    \/ VerifyAnalytics
    \/ CreateUsers
    \/ CreateIdxEmail
    \/ CreateIdxCreatedAt
    \/ CreateAnalytics
    \/ CountAnalytics
    \/ InsertAnalytics

NextStartup ==
    \/ StartupStep
    \/ StoreDown
    \/ StoreUp
    \/ Restart

SpecStartup == Init /\ [][NextStartup]_vars /\ WF_vars(StartupStep)

----------------------------------------------------------------------------
(* The server listening on a store that the bootstrap has just set up: the *)
(* four objects, one analytics row at 0 and no user row.  Every query of a *)
(* handler settles, with rows or with an error, so a handler that waits    *)
(* for a query goes on.                                                    *)

InitServing ==
    /\ NODE_ENV \in {"production", "development"}
    /\ serverJs \in {"part_000", "part_001"}
    /\ databaseJs \in {"v1", "v2"}
    /\ up = TRUE
    /\ schema = {"waitlist_users", "idx_waitlist_email", "idx_waitlist_created_at",
                 "waitlist_analytics"}
    /\ waitlist_users = <<>>
    /\ waitlist_analytics = <<[id |-> 1, total_signups |-> 0, last_updated |-> 0]>>
    /\ users_id_seq = 0
    /\ analytics_id_seq = 1
    /\ clock = 0
    /\ proc = Listening
    /\ reqs = [r \in Slots |-> NoReq]
    /\ outages = 0
    /\ boots = 1

HandlerStep(r) ==
    \/ SignupExisting(r)
    \/ SignupInsert(r)
    \/ SignupUpdate(r)
    \/ HealthQuery(r)
    \/ CountQuery(r)
    \/ SignupsQuery(r)

SpecServing ==
    InitServing /\ [][NextServing]_vars /\ \A r \in Slots : WF_vars(HandlerStep(r))

----------------------------------------------------------------------------
(* Vocabulary of the properties *)

Signups == {r \in Slots : reqs[r].kind = "signup"}

Done(r) == reqs[r].pc = "done"

\* All three required fields are there and the email has the shape a@b.c
ValidBody(b) ==
    /\ ~Falsy(b.name) /\ ~Falsy(b.email) /\ ~Falsy(b.phone)
    /\ emailRegex(b.email.s)

\* The request met a failure of the store (unreachable, or a table missing)
StoreFailed(r) == reqs[r].caught \in {"ECONNREFUSED", "42P01"}

\* Two different signup requests with the same valid email, both answered,
\* neither after a failure of the store
SameEmailPair(r, q) ==
    /\ r \in Signups /\ q \in Signups /\ r # q
    /\ ValidBody(reqs[r].body) /\ ValidBody(reqs[q].body)
    /\ reqs[r].body.email = reqs[q].body.email
    /\ Done(r) /\ Done(q)
    /\ ~StoreFailed(r) /\ ~StoreFailed(q)

\* q lost the race: it passed the pre-check and its INSERT hit the constraint
LostRace(q) == q \in Signups /\ Done(q) /\ reqs[q].caught = "23505"

----------------------------------------------------------------------------
(* C1: of two signup requests with the same valid email, one creates the   *)
(* row and the other is answered 409, also when both passed the pre-check  *)
(* and the second INSERT failed on the uniqueness constraint: never 500.   *)
C1_SecondAttemptConflicts ==
    \A r \in Slots, q \in Slots :
        SameEmailPair(r, q) =>
            \/ reqs[r].res.status = 200 /\ reqs[q].res.status = 409
            \/ reqs[q].res.status = 200 /\ reqs[r].res.status = 409

\* C1 on the revision part_001 alone, which looks at error.code
C1_SecondAttemptConflicts_001 ==
    serverJs = "part_001" => C1_SecondAttemptConflicts

C1_Witness_001 ==
    /\ serverJs = "part_001"
    /\ \E r \in Slots, q \in Slots : SameEmailPair(r, q) /\ LostRace(q)

(* C2: in every reachable state no two rows of waitlist_users have the     *)
(* same email.                                                             *)
C2_EmailUnique ==
    \A i \in 1..Len(waitlist_users), j \in 1..Len(waitlist_users) :
        i # j => waitlist_users[i].email # waitlist_users[j].email

\* Two requests with the same email both passed the pre-check; one INSERT
\* was rejected by the constraint.
C2_Witness ==
    \E r \in Slots, q \in Slots :
        /\ r # q /\ LostRace(q)
        /\ r \in Signups /\ reqs[r].id # 0
        /\ reqs[r].body.email = reqs[q].body.email
        /\ Len(waitlist_users) = 1

(* C3 as stated: from an empty table, with valid signups of pairwise       *)
(* distinct emails and no store failure, GET /api/count returns the number *)
(* of signups that have been answered with success so far.                 *)
NumSuccess ==
    Cardinality({r \in Signups : Done(r) /\ reqs[r].res.status = 200})

DistinctValid ==
    \A r \in Signups :
        /\ ValidBody(reqs[r].body)
        /\ \A q \in Signups : q # r => reqs[q].body.email # reqs[r].body.email

\* GET /api/count can be asked and its query runs
CountAnswers == proc.pc = "listening" /\ QueryError({"waitlist_users"}) = ""

C3_CountIsSuccesses ==
    (CountAnswers /\ DistinctValid /\ outages = 0) => CountResult = NumSuccess

(* C3 amended: the same, once every signup request sent has been answered  *)
(* (none is in flight and none was dropped unanswered); a count request    *)
(* whose query runs in such a state is answered with that number.          *)
AllAnswered == \A r \in Signups : Done(r)

C3_Settled == CountAnswers /\ DistinctValid /\ outages = 0 /\ AllAnswered

C3_CountStep ==
    \A r \in Slots :
        (/\ reqs[r].kind = "count" /\ reqs[r].pc = "query"
         /\ reqs'[r].pc = "done" /\ reqs'[r].res.status = 200
         /\ C3_Settled)
        => reqs'[r].res.count = NumSuccess

C3_CountWhenAnswered ==
    /\ [](C3_Settled => CountResult = NumSuccess)
    /\ [][C3_CountStep]_vars

C3_Witness ==
    /\ C3_Settled
    /\ NumSuccess = 2
    /\ CountResult = 2

(* C4: from a bootstrapped store (one analytics row at 0, no user rows),   *)
(* whenever no signup request is in flight, total_signups equals the       *)
(* number of rows of waitlist_users.                                       *)
C4_CounterEqualsRows ==
    (/\ Len(waitlist_analytics) = 1
     /\ boots = 1
     /\ \A r \in Signups : ~InFlight(reqs[r]))
    => waitlist_analytics[1].total_signups = Len(waitlist_users)

(* C5: a signup request in which name, email or phone is missing or empty  *)
(* is answered 400 before any query is issued; its step leaves the store   *)
(* as it was (no row, no counter change).                                  *)
MissingField(b) == Falsy(b.name) \/ Falsy(b.email) \/ Falsy(b.phone)

C5_Rejected ==
    \A r \in Signups :
        MissingField(reqs[r].body) =>
            /\ Done(r)
            /\ reqs[r].res.status = 400
            /\ reqs[r].nq = 0
            /\ reqs[r].id = 0

C5_Step ==
    \A r \in Slots :
        (reqs[r].kind = "none" /\ reqs'[r].kind = "signup"
         /\ MissingField(reqs'[r].body))
        => store' = store

C5_MissingFieldRejected == [](C5_Rejected) /\ [][C5_Step]_vars

C5_Witness ==
    \E r \in Signups, q \in Signups :
        /\ reqs[r].body.phone = Str(<<>>) /\ reqs[r].res.status = 400
        /\ reqs[q].body.name = Undefined /\ reqs[q].res.status = 400
        /\ reqs[r].nq = 0 /\ reqs[q].nq = 0

(* C6: a signup request whose email does not have the shape                *)
(* local-part@domain-with-a-dot (such as "not-an-email") is answered 400   *)
(* and issues no query.                                                    *)
C6_MalformedRejected ==
    \A r \in Signups :
        (~MissingField(reqs[r].body) /\ ~emailRegex(reqs[r].body.email.s)) =>
            /\ Done(r)
            /\ reqs[r].res.status = 400
            /\ reqs[r].nq = 0

\* C6 on the revision part_001 alone, which tests the email
C6_MalformedRejected_001 == serverJs = "part_001" => C6_MalformedRejected

(* C7: in production every GET /api/signups request is answered 403 and    *)
(* issues no query, whatever the store holds and whether it is reachable.  *)
C7_ForbiddenInProduction ==
    NODE_ENV = "production" =>
        \A r \in Slots :
            reqs[r].kind = "signups" =>
                /\ Done(r)
                /\ reqs[r].res.status = 403
                /\ reqs[r].nq = 0

C7_Witness ==
    /\ NODE_ENV = "production"
    /\ ~up
    /\ waitlist_users # <<>>
    /\ \E r \in Slots : reqs[r].kind = "signups" /\ reqs[r].res.status = 403

(* C8: outside production, GET /api/signups returns every row that         *)
(* waitlist_users holds when its query runs, whatever their number,        *)
(* ordered by created_at descending.                                       *)
Range(f) == {f[i] : i \in DOMAIN f}

C8_ListStep ==
    \A r \in Slots :
        (/\ reqs[r].kind = "signups" /\ reqs[r].pc = "query"
         /\ reqs'[r].pc = "done" /\ reqs'[r].res.status = 200)
        => LET d == reqs'[r].res.data IN
           /\ Len(d) = Len(waitlist_users)
           /\ Range(d) = Range(waitlist_users)
           /\ \A i \in 1..Len(d), j \in 1..Len(d) :
                  i < j => d[i].created_at >= d[j].created_at

C8_ListsAllRowsNewestFirst == [][C8_ListStep]_vars

\* C8 on the revision part_000 alone, whose query has no LIMIT
C8_ListsAllRowsNewestFirst_000 ==
    [][serverJs = "part_000" => C8_ListStep]_vars

(* C9: the schema bootstrap is idempotent.  Whatever the store held, a run *)
(* reports no error unless the store is unreachable, never removes an      *)
(* object of the schema, never touches a row of waitlist_users nor an      *)
(* existing row of waitlist_analytics, and never makes a second analytics  *)
(* row; a run that follows a successful run on a store with its analytics  *)
(* row changes nothing at all.                                             *)
InitPcs ==
    {"verifyUsers", "verifyAnalytics", "createUsers", "createIdxEmail",
     "createIdxCreatedAt", "createAnalytics", "countAnalytics", "insertAnalytics"}

C9_NoError ==
    /\ proc.caught \in {"", "ECONNREFUSED"}
    /\ proc.init = "false" => proc.caught = "ECONNREFUSED"

C9_FrameStep ==
    proc.pc \in InitPcs =>
        /\ waitlist_users' = waitlist_users
        /\ users_id_seq' = users_id_seq
        /\ schema \subseteq schema'
        /\ Len(waitlist_analytics) <= Len(waitlist_analytics')
        /\ \A i \in 1..Len(waitlist_analytics) :
               waitlist_analytics'[i] = waitlist_analytics[i]

C9_SecondRunStep ==
    (proc.pc \in InitPcs /\ proc.prev = "true" /\ waitlist_analytics # <<>>) =>
        /\ schema' = schema
        /\ waitlist_analytics' = waitlist_analytics
        /\ analytics_id_seq' = analytics_id_seq

C9_BootstrapIdempotent ==
    /\ [](C9_NoError /\ Len(waitlist_analytics) <= 1)
    /\ [][C9_FrameStep /\ C9_SecondRunStep]_vars

\* A second run, through the CREATE statements, after a successful first run
\* and a signup: it returned true and the row and the counter are as they were.
C9_Witness ==
    /\ databaseJs = "v2"
    /\ boots = 2
    /\ proc.prev = "true"
    /\ proc.pc = "listening" /\ proc.init = "true"
    /\ Len(waitlist_users) = 1
    /\ Len(waitlist_analytics) = 1
    /\ waitlist_analytics[1].total_signups = 1

(* C10: whenever the schema bootstrap has returned success,                *)
(* waitlist_analytics holds exactly one row, whatever the store held       *)
(* before (no tables, tables with an empty waitlist_analytics, tables with *)
(* the row).                                                               *)
C10_OneAnalyticsRow == proc.init = "true" => Len(waitlist_analytics) = 1

\* C10 on the revision of database.js at lines 128-235, which always counts
\* the rows; a row the bootstrap inserts holds total_signups = 0
C10_InsertStep ==
    (proc.pc \in InitPcs /\ Len(waitlist_analytics') > Len(waitlist_analytics)) =>
        waitlist_analytics'[Len(waitlist_analytics')].total_signups = 0

C10_OneAnalyticsRow_v2 ==
    /\ [](databaseJs = "v2" => C10_OneAnalyticsRow)
    /\ [][C10_InsertStep]_vars

(* C11: the server listens only after the schema bootstrap has run and     *)
(* succeeded; when the creation of the schema fails the process exits and  *)
(* does not listen.                                                        *)
C11_ListensOnlyAfterBootstrap ==
    proc.pc = "listening" => proc.init = "true"

\* C11 on the revision of database.js at lines 128-235, which exits on failure
C11_ListensOnlyAfterBootstrap_v2 ==
    databaseJs = "v2" => C11_ListensOnlyAfterBootstrap

(* C12: the connectivity probe of part_001 makes at most ProbeRetries (5)  *)
(* attempts; when all fail the process exits without having run the        *)
(* bootstrap; the bootstrap runs and the server listens only after an      *)
(* attempt that succeeded; and the startup always ends, listening or       *)
(* exited.                                                                 *)
Ended == proc.pc \in {"listening", "exited"}

C12_Probe ==
    serverJs = "part_001" =>
        /\ proc.attempts <= ProbeRetries
        /\ proc.pc \in InitPcs \cup {"listening"} => proc.connected
        /\ (proc.attempts = ProbeRetries /\ ~proc.connected) =>
               /\ proc.pc = "exited"
               /\ proc.init = "" /\ proc.caught = ""
        /\ (proc.pc = "exited" /\ ~proc.connected) => proc.attempts = ProbeRetries

C12_ProbeBoundedAndStartupEnds == [](C12_Probe) /\ []<>Ended

\* All five attempts failed and the process exited
C12_WitnessExhausted ==
    /\ serverJs = "part_001"
    /\ proc.pc = "exited" /\ proc.attempts = ProbeRetries /\ ~proc.connected

(* C13: a duplicate email is reported the same way on both detection       *)
(* paths: the request whose INSERT hit the uniqueness constraint gets the  *)
(* very response (409, same message) that the pre-check SELECT gives.      *)
C13_ConflictUniform ==
    serverJs = "part_001" =>
        \A q \in Slots : LostRace(q) => reqs[q].res = conflict_001

\* Both paths answer 409 in part_001; only the message differs
C13_ConflictStatus_001 ==
    serverJs = "part_001" =>
        \A q \in Slots : LostRace(q) => reqs[q].res.status = conflict_001.status

(* C14: while the server listens every request received gets exactly one   *)
(* JSON response, also when a query of its handler fails, and no step of a *)
(* handler changes the state of the process.                               *)
Statuses == {200, 400, 403, 409, 500}

C14_Answered ==
    \A r \in Slots :
        /\ Done(r) => reqs[r].res.status \in Statuses
        /\ ~Done(r) => reqs[r].res = NoRes

C14_Step ==
    /\ \A r \in Slots : Done(r) => reqs'[r] = reqs[r]
    /\ proc' = proc /\ proc.pc = "listening"

C14_EveryRequestAnswered ==
    /\ [](C14_Answered)
    /\ [][C14_Step]_vars
    /\ \A r \in Slots : (reqs[r].kind # "none") ~> Done(r)

\* A signup whose query failed on the unreachable store was answered 500
C14_Witness ==
    \E r \in Signups :
        /\ Done(r) /\ reqs[r].caught = "ECONNREFUSED"
        /\ reqs[r].res.status = 500 /\ proc.pc = "listening"

(* C15: a signup answered 409, on either path, wrote nothing: the step     *)
(* that answers it leaves waitlist_users and waitlist_analytics as they    *)
(* were, the request never inserted a row, and every change of the two     *)
(* tables is the step of a request that did insert one (or of the          *)
(* bootstrap).                                                             *)
Conflicted(r) == r \in Signups /\ Done(r) /\ reqs[r].res.status = 409

C15_NoRowOfThe409 ==
    /\ \A r \in Slots : Conflicted(r) => reqs[r].id = 0
    /\ \A i \in 1..Len(waitlist_users) :
           \E r \in Signups : reqs[r].id = waitlist_users[i].id /\ ~Conflicted(r)

C15_Step ==
    /\ \A r \in Slots :
           (~Done(r) /\ reqs'[r].pc = "done" /\ reqs'[r].res.status = 409) =>
               UNCHANGED <<waitlist_users, waitlist_analytics>>
    /\ (waitlist_users' # waitlist_users \/ waitlist_analytics' # waitlist_analytics) =>
           \/ proc' # proc
           \/ \E r \in Slots : reqs'[r] # reqs[r] /\ reqs'[r].id # 0

C15_ConflictWritesNothing == [](C15_NoRowOfThe409) /\ [][C15_Step]_vars

\* A request answered 409 by the catch block, next to the row of the winner
C15_Witness ==
    \E q \in Slots :
        /\ Conflicted(q) /\ LostRace(q)
        /\ Len(waitlist_users) = 1 /\ waitlist_users[1].email = reqs[q].body.email.s

(* C16: GET /health runs a query that names no table: it answers healthy   *)
(* (200) whenever the store is reachable, also with the tables missing,    *)
(* unhealthy (500 with the error) exactly when the store is not reachable, *)
(* and it leaves the schema and both tables unchanged.                     *)
HealthReqs == {r \in Slots : reqs[r].kind = "health"}

C16_Answers ==
    \A r \in HealthReqs :
        Done(r) =>
            \/ /\ reqs[r].res.status = 200 /\ reqs[r].res.health = "healthy"
               /\ reqs[r].caught = ""
            \/ /\ reqs[r].res.status = 500 /\ reqs[r].res.health = "unhealthy"
               /\ reqs[r].caught = "ECONNREFUSED" /\ reqs[r].res.error = reqs[r].caught

C16_Step ==
    \A r \in HealthReqs :
        (reqs[r].pc = "query" /\ reqs'[r].pc = "done") =>
            /\ reqs'[r].res.status = IF up THEN 200 ELSE 500
            /\ UNCHANGED <<schema, waitlist_users, waitlist_analytics>>

C16_HealthIgnoresTables == [](C16_Answers) /\ [][C16_Step]_vars

\* Healthy was answered while the tables do not exist
C16_Witness ==
    \E r \in HealthReqs :
        /\ Done(r) /\ reqs[r].res.health = "healthy"
        /\ "waitlist_users" \notin schema /\ "waitlist_analytics" \notin schema

(* C17: the startup probe of part_001 depends on the reachability of the   *)
(* store only: on a store that was reachable all along, every attempt made *)
(* has succeeded (also before the tables exist) and the process has not    *)
(* exited.                                                                 *)
C17_ProbeIgnoresTables ==
    (serverJs = "part_001" /\ outages = 0 /\ proc.attempts > 0) =>
        proc.connected /\ proc.pc # "exited"

\* C17 on the revision of testConnection at src/database.js lines 159-171
C17_ProbeIgnoresTables_v2 ==
    databaseJs = "v2" => C17_ProbeIgnoresTables

(* C18: a signup answered with success created one row, which holds the    *)
(* submitted email and whose id is the userId returned; two successes got  *)
(* different userIds; and no step updates or deletes a row: the table      *)
(* grows by at most one row at its end.                                    *)
Succeeded(r) == r \in Signups /\ Done(r) /\ reqs[r].res.status = 200

RowsOf(r) ==
    {i \in 1..Len(waitlist_users) : waitlist_users[i].id = reqs[r].res.userId}

C18_RowOfSuccess ==
    /\ \A r \in Slots :
           Succeeded(r) =>
               /\ Cardinality(RowsOf(r)) = 1
               /\ \A i \in RowsOf(r) :
                      waitlist_users[i].email = reqs[r].body.email.s
    /\ \A r \in Slots, q \in Slots :
           (r # q /\ Succeeded(r) /\ Succeeded(q)) =>
               reqs[r].res.userId # reqs[q].res.userId

C18_Step ==
    /\ Len(waitlist_users') \in {Len(waitlist_users), Len(waitlist_users) + 1}
    /\ SubSeq(waitlist_users', 1, Len(waitlist_users)) = waitlist_users

C18_OneRowPerSuccess == [](C18_RowOfSuccess) /\ [][C18_Step]_vars

\* Two signups succeeded
C18_Witness ==
    \E r \in Slots, q \in Slots :
        r # q /\ Succeeded(r) /\ Succeeded(q) /\ Len(waitlist_users) = 2

(* C19: with the single analytics row, total_signups never exceeds the     *)
(* number of rows of waitlist_users, and the difference is the number of   *)
(* signups whose INSERT is committed and whose UPDATE has not been         *)
(* applied: still to come, failed, or lost with the process.               *)
Pending == {r \in Signups : reqs[r].id # 0 /\ ~Succeeded(r)}

C19_CounterLag ==
    Len(waitlist_analytics) = 1 =>
        /\ waitlist_analytics[1].total_signups <= Len(waitlist_users)
        /\ Len(waitlist_users) - waitlist_analytics[1].total_signups
               = Cardinality(Pending)

\* One signup succeeded and the other lost its UPDATE with the process
C19_Witness ==
    /\ Len(waitlist_analytics) = 1 /\ waitlist_analytics[1].total_signups = 1
    /\ \E r \in Pending : reqs[r].pc = "aborted"

====
